---- MODULE Spec2Model ----
(***************************************************************************)
(* Model of app.py: the startup merge of the ZCTA shapefile, call_plan.csv *)
(* and hierarchy.csv into master_gdf, and the /data and /names handlers.   *)
(*                                                                         *)
(* Every string of the program is a sequence of one-character strings, so  *)
(* that str.lower(), sorted() and the int -> str conversion are computed   *)
(* character by character.  A pandas DataFrame is the sequence of its rows.*)
(***************************************************************************)
EXTENDS Integers, Sequences, FiniteSets, TLC

VARIABLES shapefile, call_plan_csv, hierarchy_csv,
          master_gdf, district_terr_counts, region_terr_counts,
          pc, response

vars == <<shapefile, call_plan_csv, hierarchy_csv,
          master_gdf, district_terr_counts, region_terr_counts, pc, response>>

TERRITORY_WORKLOAD_THRESHOLD == 250

\* ------------------------------------------------------------------------
\* Bounds of the model: the number of rows of each input file.
MaxShapeRows == 2
MaxCallPlanRows == 2
MaxHierarchyRows == 2

\* ------------------------------------------------------------------------
\* Strings

Digits == <<"0", "1", "2", "3", "4", "5", "6", "7", "8", "9">>
UpperCase == <<"A", "B", "C", "D", "E", "F", "G", "H", "I", "J", "K", "L", "M",
               "N", "O", "P", "Q", "R", "S", "T", "U", "V", "W", "X", "Y", "Z">>
LowerCase == <<"a", "b", "c", "d", "e", "f", "g", "h", "i", "j", "k", "l", "m",
               "n", "o", "p", "q", "r", "s", "t", "u", "v", "w", "x", "y", "z">>

Range(s) == {s[i] : i \in DOMAIN s}
IndexOf(s, c) == CHOOSE i \in DOMAIN s : s[i] = c

\* The code point of a character (ASCII digits and letters).
CodePoints ==
    [c \in Range(Digits) \cup Range(UpperCase) \cup Range(LowerCase) |->
        IF c \in Range(Digits) THEN 47 + IndexOf(Digits, c)
        ELSE IF c \in Range(UpperCase) THEN 64 + IndexOf(UpperCase, c)
        ELSE 96 + IndexOf(LowerCase, c)]
Ord(c) == CodePoints[c]

\* str.lower()
LowerOf ==
    [c \in Range(Digits) \cup Range(UpperCase) \cup Range(LowerCase) |->
        IF c \in Range(UpperCase) THEN LowerCase[IndexOf(UpperCase, c)] ELSE c]
StrLower(s) == [i \in DOMAIN s |-> LowerOf[s[i]]]

\* Python's str.__lt__: lexicographic on code points, a proper prefix first.
StrLess(a, b) ==
    \E k \in 1..(Len(a) + 1) :
        /\ \A i \in 1..(k - 1) : i <= Len(b) /\ a[i] = b[i]
        /\ \/ k = Len(a) + 1 /\ Len(b) >= k
           \/ k <= Len(a) /\ k <= Len(b) /\ Ord(a[k]) < Ord(b[k])

\* sorted(S) of a collection of distinct strings.
RECURSIVE Sorted(_)
Sorted(S) ==
    IF S = {} THEN <<>>
    ELSE LET m == CHOOSE x \in S : \A y \in S \ {x} : StrLess(x, y)
         IN  <<m>> \o Sorted(S \ {m})

\* read_csv's integer parse of an all-digit cell, and astype(str) of an int64.
RECURSIVE ParseInt(_)
ParseInt(s) ==
    IF s = <<>> THEN 0
    ELSE ParseInt(SubSeq(s, 1, Len(s) - 1)) * 10 + (IndexOf(Digits, s[Len(s)]) - 1)

RECURSIVE IntToStr(_)
IntToStr(n) ==
    IF n < 10 THEN <<Digits[n + 1]>>
    ELSE IntToStr(n \div 10) \o <<Digits[(n % 10) + 1]>>

\* A missing cell (NaN / None) of a DataFrame: no string of characters.
NaN == <<"NaN">>
Unassigned == <<"U", "n", "a", "s", "s", "i", "g", "n", "e", "d">>

\* ------------------------------------------------------------------------
\* The input files

\* Rows a file may hold, in a fixed order; a file lists its rows in that order
\* (the order of the rows of a file reaches no response: every response is
\* sorted by key).
NonDecreasing(n, max) ==
    {s \in UNION {[1..k -> 1..n] : k \in 0..max} :
        \A i \in 1..(Len(s) - 1) : s[i] <= s[i + 1]}
Increasing(n, max) ==
    {s \in UNION {[1..k -> 1..n] : k \in 0..max} :
        \A i \in 1..(Len(s) - 1) : s[i] < s[i + 1]}

\* tl_2024_us_zcta520.shp: one feature per ZCTA, ZCTA5CE20 a string attribute.
\* The geometry of a ZCTA is the set of the cells it covers: its own.
ShapeIds == << <<"0", "1">>, <<"1">>, <<"2">> >>
ShapeRow(id) == [ZCTA5CE20 |-> id, geometry |-> {id}]
ShapeFiles ==
    {[i \in DOMAIN ix |-> ShapeRow(ShapeIds[ix[i]])] :
        ix \in Increasing(Len(ShapeIds), MaxShapeRows)}

\* call_plan.csv: columns zip, calls, hcpid; a row's hcpid may be blank.
CallPlanZips == << <<"0", "1">>, <<"2">> >>
CallPlanCells == << [calls |-> 1, hcpid |-> <<"H">>], [calls |-> 2, hcpid |-> NaN] >>
CallPlanRows ==
    [i \in 1..(Len(CallPlanZips) * Len(CallPlanCells)) |->
        LET z == CallPlanZips[((i - 1) % Len(CallPlanZips)) + 1]
            c == CallPlanCells[((i - 1) \div Len(CallPlanZips)) + 1]
        IN  [zip |-> z, calls |-> c.calls, hcpid |-> c.hcpid]]
CallPlanFiles ==
    {[i \in DOMAIN ix |-> CallPlanRows[ix[i]]] :
        ix \in NonDecreasing(Len(CallPlanRows), MaxCallPlanRows)}

\* hierarchy.csv: columns zip, territory, district, region; a cell may be
\* blank, and nothing keeps a name of the file from being "Unassigned".
HierarchyZips == << <<"1">>, <<"2">> >>
HierarchyCells ==
    << [territory |-> <<"T", "1">>, district |-> <<"D", "1">>, region |-> <<"R", "1">>],
       [territory |-> <<"T", "2">>, district |-> <<"D", "1">>, region |-> <<"R", "1">>],
       [territory |-> <<"T", "1">>, district |-> NaN, region |-> Unassigned] >>
HierarchyRows ==
    [i \in 1..(Len(HierarchyZips) * Len(HierarchyCells)) |->
        LET z == HierarchyZips[((i - 1) % Len(HierarchyZips)) + 1]
            c == HierarchyCells[((i - 1) \div Len(HierarchyZips)) + 1]
        IN  [zip |-> z, territory |-> c.territory, district |-> c.district,
             region |-> c.region]]
HierarchyFiles ==
    {[i \in DOMAIN ix |-> HierarchyRows[ix[i]]] :
        ix \in NonDecreasing(Len(HierarchyRows), MaxHierarchyRows)}

\* ------------------------------------------------------------------------
\* DataFrame helpers

RECURSIVE Concat(_)
Concat(ss) == IF ss = <<>> THEN <<>> ELSE Head(ss) \o Concat(Tail(ss))

RECURSIVE SumSeq(_)
SumSeq(s) == IF s = <<>> THEN 0 ELSE Head(s) + SumSeq(Tail(s))

Column(df, col) == [i \in DOMAIN df |-> df[i][col]]

\* Faulty variant: Series.nunique() in place of count(): distinct actors.
CountDistinct(s) == Cardinality({s[i] : i \in DOMAIN s} \ {NaN})

\* Series.count(): the cells that are not missing.
CountNotNull(s) == Cardinality({i \in DOMAIN s : s[i] # NaN})

\* Series.nunique(): the distinct values that are not missing.
NUnique(s) == Cardinality(Range(s) \ {NaN})

\* Series.unique().tolist()
Unique(s) == Range(s)

\* ------------------------------------------------------------------------
\* load_and_process_data

\* gpd.read_file(...)[['ZCTA5CE20', 'geometry']], ZCTA5CE20 .astype(str):
\* the attribute is a string already.
ReadShapefile(shp) == shp

\* pd.read_csv + ['zip'].astype(str): the all-digit zip column is read as
\* int64, and the integer is printed back in decimal.
ReadZipColumn(csv) ==
    [i \in DOMAIN csv |-> [csv[i] EXCEPT !.zip = IntToStr(ParseInt(csv[i].zip))]]

\* call_plan_df.groupby('zip').agg(calls=('calls', 'sum'),
\*     hcp_count=('hcpid', 'count')).reset_index(), zip renamed ZCTA5CE20.
ZipAggregations(call_plan_df) ==
    LET keys == Sorted(Range(Column(call_plan_df, "zip")))
        Group(k) == SelectSeq(call_plan_df, LAMBDA r : r.zip = k)
    IN  [i \in DOMAIN keys |->
            [ZCTA5CE20 |-> keys[i],
             calls     |-> SumSeq(Column(Group(keys[i]), "calls")),
             hcp_count |-> CountNotNull(Column(Group(keys[i]), "hcpid"))]]

\* hierarchy_df.groupby(col)['territory'].nunique().to_dict(): a missing
\* group key makes no group.
TerritoryCounts(hierarchy_df, col) ==
    LET keys == Range(Column(hierarchy_df, col)) \ {NaN}
        Group(k) == SelectSeq(hierarchy_df, LAMBDA r : r[col] = k)
    IN  [k \in keys |-> NUnique(Column(Group(k), "territory"))]

\* hierarchy_df.rename(columns={'zip': 'ZCTA5CE20'})
RenameZip(hierarchy_df) ==
    [i \in DOMAIN hierarchy_df |->
        [ZCTA5CE20 |-> hierarchy_df[i].zip,
         territory |-> hierarchy_df[i].territory,
         district  |-> hierarchy_df[i].district,
         region    |-> hierarchy_df[i].region]]

\* Faulty variant: line 45 with how='inner': a zone without a hierarchy row is lost.
MergeLeftAsInner(zip_aggregations, hierarchy_df) ==
    LET Matches(l) == SelectSeq(hierarchy_df, LAMBDA r : r.ZCTA5CE20 = l.ZCTA5CE20)
        Joined(l, h) ==
            [ZCTA5CE20 |-> l.ZCTA5CE20, calls |-> l.calls, hcp_count |-> l.hcp_count,
             territory |-> h.territory, district |-> h.district, region |-> h.region]
        RowsOf(l) == [j \in DOMAIN Matches(l) |-> Joined(l, Matches(l)[j])]
    IN  Concat([i \in DOMAIN zip_aggregations |-> RowsOf(zip_aggregations[i])])

\* pd.merge(zip_aggregations, hierarchy_df, on='ZCTA5CE20', how='left')
MergeLeft(zip_aggregations, hierarchy_df) ==
    LET Matches(l) == SelectSeq(hierarchy_df, LAMBDA r : r.ZCTA5CE20 = l.ZCTA5CE20)
        Joined(l, h) ==
            [ZCTA5CE20 |-> l.ZCTA5CE20, calls |-> l.calls, hcp_count |-> l.hcp_count,
             territory |-> h.territory, district |-> h.district, region |-> h.region]
        Missing == [territory |-> NaN, district |-> NaN, region |-> NaN]
        RowsOf(l) ==
            IF Matches(l) = <<>> THEN <<Joined(l, Missing)>>
            ELSE [j \in DOMAIN Matches(l) |-> Joined(l, Matches(l)[j])]
    IN  Concat([i \in DOMAIN zip_aggregations |-> RowsOf(zip_aggregations[i])])

\* pd.merge(zip_geometries, merged_df, on='ZCTA5CE20', how='inner')
MergeInner(zip_geometries, merged_df) ==
    LET Matches(g) == SelectSeq(merged_df, LAMBDA r : r.ZCTA5CE20 = g.ZCTA5CE20)
        Joined(g, m) ==
            [ZCTA5CE20 |-> g.ZCTA5CE20, geometry |-> g.geometry,
             calls |-> m.calls, hcp_count |-> m.hcp_count,
             territory |-> m.territory, district |-> m.district, region |-> m.region]
        RowsOf(g) == [j \in DOMAIN Matches(g) |-> Joined(g, Matches(g)[j])]
    IN  Concat([i \in DOMAIN zip_geometries |-> RowsOf(zip_geometries[i])])

\* Faulty variant: line 47 left out: a missing cell stays missing.
FillNaSkipped(cell) == cell

\* [['territory', 'district', 'region']].fillna('Unassigned')
FillNa(cell) == IF cell = NaN THEN Unassigned ELSE cell

FillUnassigned(df) ==
    [i \in DOMAIN df |->
        [df[i] EXCEPT !.territory = FillNa(@), !.district = FillNa(@),
                      !.region = FillNa(@)]]

\* The frame that line 45 builds, before the geometries are joined.
MergedDf(cp, hi) ==
    MergeLeft(ZipAggregations(ReadZipColumn(cp)), RenameZip(ReadZipColumn(hi)))

\* The three values load_and_process_data returns when nothing raises.
MasterGdf(shp, cp, hi) ==
    FillUnassigned(MergeInner(ReadShapefile(shp), MergedDf(cp, hi)))

None == [isNone |-> TRUE, value |-> <<>>]
Some(v) == [isNone |-> FALSE, value |-> v]

\* Faulty variant: the territory counts taken after the merges, from master_gdf.
LoadAndProcessDataCountsAfterMerge(shp, cp, hi) ==
    [master_gdf |-> Some(MasterGdf(shp, cp, hi)),
     district_territory_counts |-> Some(TerritoryCounts(MasterGdf(shp, cp, hi), "district")),
     region_territory_counts   |-> Some(TerritoryCounts(MasterGdf(shp, cp, hi), "region"))]

LoadAndProcessData(shp, cp, hi) ==
    [master_gdf |-> Some(MasterGdf(shp, cp, hi)),
     district_territory_counts |-> Some(TerritoryCounts(ReadZipColumn(hi), "district")),
     region_territory_counts   |-> Some(TerritoryCounts(ReadZipColumn(hi), "region"))]

\* except Exception: return None, None, None
LoadFailed ==
    [master_gdf |-> None, district_territory_counts |-> None,
     region_territory_counts |-> None]

\* ------------------------------------------------------------------------
\* Requests and responses

\* The value of the level query parameter; NoArg when the request has none.
NoArg == <<"NoArg">>
LevelArgs ==
    { NoArg,
      <<"z", "o", "n", "e">>,
      <<"t", "e", "r", "r", "i", "t", "o", "r", "y">>,
      <<"D", "i", "s", "t", "r", "i", "c", "t">>,
      <<"b", "o", "g", "u", "s">> }

\* A response: the status code, the route and level argument of the request
\* it answers, and the body (units of /data, names of /names, error message).
NoNames == [region |-> <<>>, district |-> <<>>, territory |-> <<>>, zip |-> <<>>]
NoResponse ==
    [code |-> 0, route |-> "", arg |-> NoArg, level |-> <<>>, units |-> <<>>,
     names |-> NoNames, error |-> ""]
DataResponse(arg, level, units) ==
    [code |-> 200, route |-> "/data", arg |-> arg, level |-> level, units |-> units,
     names |-> NoNames, error |-> ""]
NamesResponse(names) ==
    [code |-> 200, route |-> "/names", arg |-> NoArg, level |-> <<>>, units |-> <<>>,
     names |-> names, error |-> ""]
ErrorResponse(route, arg, level, error) ==
    [code |-> 500, route |-> route, arg |-> arg, level |-> level, units |-> <<>>,
     names |-> NoNames, error |-> error]

\* ------------------------------------------------------------------------
\* get_geospatial_data

\* Faulty variant: the level compared as given, without .lower().
RequestLevelCaseSensitive(arg) ==
    IF arg = NoArg THEN <<"R", "e", "g", "i", "o", "n">> ELSE arg

\* request.args.get('level', 'Region').lower()
RequestLevel(arg) ==
    StrLower(IF arg = NoArg THEN <<"R", "e", "g", "i", "o", "n">> ELSE arg)

TerritoryLevel == <<"t", "e", "r", "r", "i", "t", "o", "r", "y">>
DistrictLevel == <<"d", "i", "s", "t", "r", "i", "c", "t">>
RegionLevel == <<"r", "e", "g", "i", "o", "n">>

\* dissolve_col: the column of master_gdf the level names.
DissolveCol(level) ==
    IF level = TerritoryLevel THEN "territory"
    ELSE IF level = DistrictLevel THEN "district"
    ELSE IF level = RegionLevel THEN "region"
    ELSE "ZCTA5CE20"

\* GeoDataFrame.dissolve(by=col, aggfunc={'calls': 'sum', 'hcp_count': 'sum'})
\* followed by reset_index().rename(columns={col: 'name'}): one row per key
\* that is not missing, in key order, the geometries unioned.
Dissolve(gdf, col) ==
    LET keys == Sorted(Range(Column(gdf, col)) \ {NaN})
        Group(k) == SelectSeq(gdf, LAMBDA r : r[col] = k)
    IN  [i \in DOMAIN keys |->
            [name      |-> keys[i],
             geometry  |-> UNION Range(Column(Group(keys[i]), "geometry")),
             calls     |-> SumSeq(Column(Group(keys[i]), "calls")),
             hcp_count |-> SumSeq(Column(Group(keys[i]), "hcp_count"))]]

\* Faulty variant: a name the table lacks counts as one territory.
MapCountDefaultOne(counts, name) == IF name \in DOMAIN counts THEN counts[name] ELSE 1

\* aggregated['name'].map(counts).fillna(0)
MapCount(counts, name) == IF name \in DOMAIN counts THEN counts[name] ELSE 0

\* The threshold column of lines 84-91.
Threshold(level, name, dcounts, rcounts) ==
    IF level = TerritoryLevel THEN TERRITORY_WORKLOAD_THRESHOLD
    ELSE IF level = DistrictLevel
        THEN MapCount(dcounts, name) * TERRITORY_WORKLOAD_THRESHOLD
    ELSE IF level = RegionLevel
        THEN MapCount(rcounts, name) * TERRITORY_WORKLOAD_THRESHOLD
    ELSE 0

\* aggregated[['name', 'calls', 'hcp_count', 'threshold', 'geometry']]
Aggregated(level, gdf, dcounts, rcounts) ==
    LET d == Dissolve(gdf, DissolveCol(level))
    IN  [i \in DOMAIN d |->
            [name |-> d[i].name, calls |-> d[i].calls, hcp_count |-> d[i].hcp_count,
             threshold |-> Threshold(level, d[i].name, dcounts, rcounts),
             geometry |-> d[i].geometry]]

\* Faulty variant: line 71 left out: the handler goes on without a dataset.
GetGeospatialDataResponseUnguarded(arg, master, dcounts, rcounts) ==
    DataResponse(arg, RequestLevel(arg),
        Aggregated(RequestLevel(arg), master.value, dcounts.value, rcounts.value))

\* The response of /data when the try block raises nothing.
GetGeospatialDataResponse(arg, master, dcounts, rcounts) ==
    IF master.isNone
    THEN ErrorResponse("/data", arg, <<>>, "Data could not be loaded.")
    ELSE DataResponse(arg, RequestLevel(arg),
            Aggregated(RequestLevel(arg), master.value, dcounts.value, rcounts.value))

\* ------------------------------------------------------------------------
\* get_all_names

\* Faulty variant: the columns listed as they are, neither deduplicated nor sorted.
GetAllNamesResponseUnsorted(master) ==
    IF master.isNone
    THEN ErrorResponse("/names", NoArg, <<>>, "Data not loaded")
    ELSE NamesResponse(
            [region    |-> Column(master.value, "region"),
             district  |-> Column(master.value, "district"),
             territory |-> Column(master.value, "territory"),
             zip       |-> Column(master.value, "ZCTA5CE20")])

GetAllNamesResponse(master) ==
    IF master.isNone
    THEN ErrorResponse("/names", NoArg, <<>>, "Data not loaded")
    ELSE NamesResponse(
            [region    |-> Sorted(Unique(Column(master.value, "region"))),
             district  |-> Sorted(Unique(Column(master.value, "district"))),
             territory |-> Sorted(Unique(Column(master.value, "territory"))),
             zip       |-> Sorted(Unique(Column(master.value, "ZCTA5CE20")))])

\* ------------------------------------------------------------------------
\* The state machine

\* The data directory holds the three files; the module has not run line 56.
Init ==
    /\ shapefile \in ShapeFiles
    /\ call_plan_csv \in CallPlanFiles
    /\ hierarchy_csv \in HierarchyFiles
    /\ master_gdf = None
    /\ district_terr_counts = None
    /\ region_terr_counts = None
    /\ pc = "start"
    /\ response = NoResponse

\* Line 56, the try block of load_and_process_data running to its end.
Load ==
    /\ pc = "start"
    /\ LET r == LoadAndProcessData(shapefile, call_plan_csv, hierarchy_csv)
       IN  /\ master_gdf' = r.master_gdf
           /\ district_terr_counts' = r.district_territory_counts
           /\ region_terr_counts' = r.region_territory_counts
    /\ pc' = "serving"
    /\ UNCHANGED <<shapefile, call_plan_csv, hierarchy_csv, response>>

\* Line 56, a statement of the try block raising (a file missing or
\* unreadable, a column missing).
LoadExcept ==
    /\ pc = "start"
    /\ master_gdf' = LoadFailed.master_gdf
    /\ district_terr_counts' = LoadFailed.district_territory_counts
    /\ region_terr_counts' = LoadFailed.region_territory_counts
    /\ pc' = "serving"
    /\ UNCHANGED <<shapefile, call_plan_csv, hierarchy_csv, response>>

\* GET /data?level=arg
GetGeospatialData(arg) ==
    /\ pc = "serving"
    /\ response' = GetGeospatialDataResponse(arg, master_gdf, district_terr_counts,
                                             region_terr_counts)
    /\ UNCHANGED <<shapefile, call_plan_csv, hierarchy_csv, master_gdf,
                   district_terr_counts, region_terr_counts, pc>>

\* Faulty variant: the except branch dropping the dataset it could not process.
GetGeospatialDataExceptReset(arg) ==
    /\ pc = "serving"
    /\ ~master_gdf.isNone
    /\ response' = ErrorResponse("/data", arg, RequestLevel(arg),
                                 "Failed to process data for level")
    /\ master_gdf' = None
    /\ UNCHANGED <<shapefile, call_plan_csv, hierarchy_csv,
                   district_terr_counts, region_terr_counts, pc>>

\* GET /data?level=arg, the try block raising (a GEOSException of the union).
GetGeospatialDataExcept(arg) ==
    /\ pc = "serving"
    /\ ~master_gdf.isNone
    /\ response' = ErrorResponse("/data", arg, RequestLevel(arg),
                                 "Failed to process data for level")
    /\ UNCHANGED <<shapefile, call_plan_csv, hierarchy_csv, master_gdf,
                   district_terr_counts, region_terr_counts, pc>>

\* GET /names
GetAllNames ==
    /\ pc = "serving"
    /\ response' = GetAllNamesResponse(master_gdf)
    /\ UNCHANGED <<shapefile, call_plan_csv, hierarchy_csv, master_gdf,
                   district_terr_counts, region_terr_counts, pc>>

Next ==
    \/ Load
    \/ LoadExcept
    \/ \E arg \in LevelArgs : GetGeospatialData(arg)
    \/ \E arg \in LevelArgs : GetGeospatialDataExcept(arg)
    \/ GetAllNames

Spec == Init /\ [][Next]_vars

\* ------------------------------------------------------------------------
\* Properties

Loaded == pc = "serving" /\ ~master_gdf.isNone
DataServed == Loaded /\ response.route = "/data" /\ response.code = 200
NamesServed == Loaded /\ response.route = "/names" /\ response.code = 200

\* The zone a row of a csv file is about: its zip as the program reads it.
ZoneOf(row) == IntToStr(ParseInt(row.zip))

\* The rows of the raw hierarchy file whose column col holds name.
RawHierarchyRows(col, name) ==
    {i \in DOMAIN hierarchy_csv : hierarchy_csv[i][col] = name}
RawTerritories(col, name) ==
    {hierarchy_csv[i].territory : i \in RawHierarchyRows(col, name)} \ {NaN}

\* C1: at every level the calls of the units of a /data response add up to
\* the calls of the records of master_gdf, and so do their hcp_count.
C1_MassConserved ==
    DataServed =>
        /\ SumSeq(Column(response.units, "calls"))
             = SumSeq(Column(master_gdf.value, "calls"))
        /\ SumSeq(Column(response.units, "hcp_count"))
             = SumSeq(Column(master_gdf.value, "hcp_count"))

\* C1 witness: a territory-level response with a unit that dissolves the
\* records of two zones.
C1_Witness ==
    /\ DataServed
    /\ response.level = TerritoryLevel
    /\ Len(master_gdf.value) >= 2
    /\ \E i \in DOMAIN response.units : Cardinality(response.units[i].geometry) = 2

\* The column of the hierarchy a level dissolves by ("" at zone level).
LevelColumn(level) ==
    IF level = TerritoryLevel THEN "territory"
    ELSE IF level = DistrictLevel THEN "district"
    ELSE IF level = RegionLevel THEN "region"
    ELSE ""

\* C2 (as claimed): at every level a unit named "Unassigned" has threshold 0.
C2_UnassignedZeroEverywhere ==
    DataServed =>
        \A i \in DOMAIN response.units :
            response.units[i].name = Unassigned => response.units[i].threshold = 0

\* C2 (amended): a unit named "Unassigned" has threshold 250 at territory
\* level, like every territory; at zone level it has threshold 0; at district
\* (region) level it has 250 times the number of distinct territories of the
\* rows of the raw hierarchy file whose district (region) is the text
\* "Unassigned", which is 0 when the file has no such row.
C2_UnassignedThreshold ==
    DataServed =>
        \A i \in DOMAIN response.units :
            response.units[i].name = Unassigned =>
                response.units[i].threshold =
                    IF response.level = TerritoryLevel
                        THEN TERRITORY_WORKLOAD_THRESHOLD
                    ELSE IF response.level \in {DistrictLevel, RegionLevel}
                        THEN IF RawHierarchyRows(LevelColumn(response.level), Unassigned) = {}
                             THEN 0
                             ELSE TERRITORY_WORKLOAD_THRESHOLD
                                    * Cardinality(RawTerritories(
                                        LevelColumn(response.level), Unassigned))
                    ELSE 0

\* C2 witness: a region-level response with an Unassigned unit although the
\* hierarchy file never says "Unassigned".
C2_Witness ==
    /\ DataServed
    /\ response.level = RegionLevel
    /\ RawHierarchyRows("region", Unassigned) = {}
    /\ hierarchy_csv # <<>>
    /\ \E i \in DOMAIN response.units : response.units[i].name = Unassigned

\* C3: at district (region) level the threshold of the unit named N is 250
\* times the number of distinct territories of the rows of the raw hierarchy
\* file whose district (region) is N, whatever zones the merges dropped.
C3_ThresholdFromRawHierarchy ==
    (DataServed /\ response.level \in {DistrictLevel, RegionLevel}) =>
        \A i \in DOMAIN response.units :
            response.units[i].threshold
              = TERRITORY_WORKLOAD_THRESHOLD
                  * Cardinality(RawTerritories(LevelColumn(response.level),
                                               response.units[i].name))

\* C3 witness: a district-level response with a unit of two territories
\* (threshold 500), one of them the territory of a zone that is not in
\* master_gdf.
C3_Witness ==
    /\ DataServed
    /\ response.level = DistrictLevel
    /\ \E i \in DOMAIN response.units :
          /\ response.units[i].threshold = 2 * TERRITORY_WORKLOAD_THRESHOLD
          /\ \E j \in DOMAIN hierarchy_csv :
                /\ hierarchy_csv[j].district = response.units[i].name
                /\ \A k \in DOMAIN master_gdf.value :
                      master_gdf.value[k].ZCTA5CE20 # ZoneOf(hierarchy_csv[j])

ZoneArg == <<"z", "o", "n", "e">>
BogusArg == <<"b", "o", "g", "u", "s">>

\* C4 (as claimed): the units of aggregate("zone") and the records of
\* master_gdf correspond one to one, each unit with the zone id, geometry,
\* calls and hcp_count of its record; no zone id is in two records.
C4_ZoneBijection ==
    (DataServed /\ response.arg = ZoneArg) =>
        /\ Len(response.units) = Len(master_gdf.value)
        /\ \A i \in DOMAIN response.units :
              \E k \in DOMAIN master_gdf.value :
                  /\ master_gdf.value[k].ZCTA5CE20 = response.units[i].name
                  /\ master_gdf.value[k].geometry = response.units[i].geometry
                  /\ master_gdf.value[k].calls = response.units[i].calls
                  /\ master_gdf.value[k].hcp_count = response.units[i].hcp_count
        /\ \A k, l \in DOMAIN master_gdf.value :
              master_gdf.value[k].ZCTA5CE20 = master_gdf.value[l].ZCTA5CE20 => k = l

\* Two strings equal up to the case of their letters.
SameIgnoringCase(a, b) ==
    /\ Len(a) = Len(b)
    /\ \A i \in DOMAIN a :
          \/ a[i] = b[i]
          \/ /\ {a[i], b[i]} \subseteq Range(UpperCase) \cup Range(LowerCase)
             /\ Ord(a[i]) - Ord(b[i]) \in {32, -32}

\* The column the claim has a level argument group by.
ClaimedColumn(arg) ==
    IF SameIgnoringCase(arg, TerritoryLevel) THEN "territory"
    ELSE IF SameIgnoringCase(arg, DistrictLevel) THEN "district"
    ELSE IF SameIgnoringCase(arg, RegionLevel) THEN "region"
    ELSE "ZCTA5CE20"

\* C5: a level argument selects its column whatever the case of its letters;
\* any string that is none of territory, district, region is answered like
\* "zone": status 200, one unit per zone id, every threshold 0.
C5_LevelFallback ==
    (DataServed /\ response.arg # NoArg) =>
        /\ {response.units[i].name : i \in DOMAIN response.units}
             = Range(Column(master_gdf.value, ClaimedColumn(response.arg)))
        /\ ClaimedColumn(response.arg) = "ZCTA5CE20" =>
              /\ \A i \in DOMAIN response.units : response.units[i].threshold = 0
              /\ response.units
                   = GetGeospatialDataResponse(ZoneArg, master_gdf, district_terr_counts,
                                               region_terr_counts).units

\* C5 witness: the response to level=bogus, with two units.
C5_Witness ==
    /\ DataServed
    /\ response.arg = BogusArg
    /\ Len(response.units) = 2

\* The records of master_gdf before line 47 fills the missing cells.
RetainedBeforeFill ==
    MergeInner(ReadShapefile(shapefile), MergedDf(call_plan_csv, hierarchy_csv))

StrictlyAscending(list) ==
    \A i, j \in DOMAIN list : i < j => StrLess(list[i], list[j])

\* C6 (as claimed): the region list of /names is sorted ascending without
\* duplicates, holds only regions of records of master_gdf, and holds
\* "Unassigned" exactly when a retained record had a missing region.
C6_RegionNames ==
    NamesServed =>
        /\ StrictlyAscending(response.names.region)
        /\ Range(response.names.region) \subseteq Range(Column(master_gdf.value, "region"))
        /\ Unassigned \in Range(response.names.region)
             <=> \E k \in DOMAIN RetainedBeforeFill : RetainedBeforeFill[k].region = NaN

\* C6 (amended): as claimed, but the list holds "Unassigned" exactly when a
\* retained record had a missing region or a region that the hierarchy file
\* spells "Unassigned".
C6_RegionNamesLiteral ==
    NamesServed =>
        /\ StrictlyAscending(response.names.region)
        /\ Range(response.names.region) \subseteq Range(Column(master_gdf.value, "region"))
        /\ Unassigned \in Range(response.names.region)
             <=> \E k \in DOMAIN RetainedBeforeFill :
                    RetainedBeforeFill[k].region \in {NaN, Unassigned}

\* C6 witness: a region list of two names, "Unassigned" among them for a
\* record without a hierarchy row.
C6_Witness ==
    /\ NamesServed
    /\ Len(response.names.region) = 2
    /\ Unassigned \in Range(response.names.region)
    /\ RawHierarchyRows("region", Unassigned) = {}

\* The zones with a metrics aggregate, and the zones with a geometry.
MetricsZones == {ZoneOf(call_plan_csv[i]) : i \in DOMAIN call_plan_csv}
GeometryZones == {shapefile[i].ZCTA5CE20 : i \in DOMAIN shapefile}
HierarchyZones == {ZoneOf(hierarchy_csv[i]) : i \in DOMAIN hierarchy_csv}

\* C7: the zone ids of master_gdf are the zones with both a metrics aggregate
\* and a geometry, with or without a hierarchy row; no other zone's geometry
\* is part of a unit of a /data response, at any level.
C7_RetainedZones ==
    /\ Loaded =>
          Range(Column(master_gdf.value, "ZCTA5CE20")) = MetricsZones \cap GeometryZones
    /\ DataServed =>
          UNION {response.units[i].geometry : i \in DOMAIN response.units}
            = UNION {shapefile[i].geometry :
                       i \in {j \in DOMAIN shapefile : shapefile[j].ZCTA5CE20 \in MetricsZones}}

\* C7 witness: a /data response with a unit, while one zone has a geometry
\* and a hierarchy row but no activity record, and a retained zone has no
\* hierarchy row.
C7_Witness ==
    /\ DataServed
    /\ response.units # <<>>
    /\ (GeometryZones \cap HierarchyZones) \ MetricsZones # {}
    /\ (GeometryZones \cap MetricsZones) \ HierarchyZones # {}

\* The raw activity records of a zone.
ActivityRows(zone) == {i \in DOMAIN call_plan_csv : ZoneOf(call_plan_csv[i]) = zone}

RECURSIVE SumCalls(_)
SumCalls(rows) ==
    IF rows = {} THEN 0
    ELSE LET i == CHOOSE j \in rows : TRUE
         IN  call_plan_csv[i].calls + SumCalls(rows \ {i})

LoadHasFailed == pc = "serving" /\ master_gdf.isNone

\* C9: once the startup load has failed, the dataset stays unavailable and
\* every /data and /names request is answered with an error.
C9_FailedLoadStaysFailed ==
    /\ [](LoadHasFailed => (response = NoResponse \/ response.code = 500))
    /\ [][LoadHasFailed => (LoadHasFailed' /\ response'.code = 500)]_vars

\* C9 witness: /data answered with an error after a failed load.
C9_Witness ==
    /\ LoadHasFailed
    /\ response.route = "/data"
    /\ response.code = 500

\* C10: no request changes master_gdf or the two count tables, a failing
\* /data request included, so every answer is the one the dataset built at
\* startup gives.
C10_DatasetFrozen ==
    /\ [][pc = "serving" =>
            UNCHANGED <<master_gdf, district_terr_counts, region_terr_counts>>]_vars
    /\ [](DataServed =>
            response = GetGeospatialDataResponse(response.arg,
                          LoadAndProcessData(shapefile, call_plan_csv, hierarchy_csv).master_gdf,
                          LoadAndProcessData(shapefile, call_plan_csv, hierarchy_csv).district_territory_counts,
                          LoadAndProcessData(shapefile, call_plan_csv, hierarchy_csv).region_territory_counts))
    /\ [](NamesServed =>
            response = GetAllNamesResponse(
                          LoadAndProcessData(shapefile, call_plan_csv, hierarchy_csv).master_gdf))

\* C10 witness: a loaded dataset with records, after a /data request that
\* failed in processing.
C10_Witness ==
    /\ Loaded
    /\ master_gdf.value # <<>>
    /\ response.route = "/data"
    /\ response.code = 500

====
